---- MODULE Spec2Model ----
(***************************************************************************)
(* PopFrameAPI: the model lifecycle and caching orchestration.             *)
(*                                                                         *)
(* The program is an asyncio application: coroutines ("tasks") interleave  *)
(* on one event loop and give up the loop only at an await of real I/O.    *)
(* An action of this model is one such segment: the completion of the      *)
(* awaited call followed by all the synchronous code up to the next await. *)
(* The only code that runs beside the loop is the worker thread of         *)
(* load_cached_model (asyncio.to_thread).                                  *)
(***************************************************************************)
EXTENDS Integers, Sequences, FiniteSets, TLC

(* ------------------------------ bounds -------------------------------- *)

\* number of concurrently running request tasks
NTasks == 2
\* number of towns known upstream (territory ids 1..MaxTowns)
MaxTowns == 2
\* number of write() chunks a pickled Region takes
PickleLen == 2
\* number of results an evaluation gives for a project territory, at most
MaxResults == 1
\* number of events published on the bus, at most
MaxEvents == 2
\* number of times one APIHandler call puts its request on the wire, at most
MaxRequests == 3
\* the longest list of ids a fan-out is asked for
MaxIds == 41
\* number of calculate_model calls one get_href request makes, at most
MaxCalls == 3

(* ---------------------------- constants ------------------------------- *)

\* the number of requests get_territories_population gathers at a time
Window == 40

\* region_validators.py: the one unacceptable region id
Disallowed == 143111

Tasks == 1..NTasks
Regions == {1, 2, Disallowed}
\* the regions requests are made for
RequestRegions == {1, Disallowed}
TownIds == 1..MaxTowns
\* labels of the TransportFrame towns layer / adjacency matrix
Labels == 1..MaxTowns

Range(s) == {s[i] : i \in 1..Len(s)}
IsInjective(s) == \A i, j \in 1..Len(s) : s[i] = s[j] => i = j

\* all sequences without repetition over S of length lo..hi
SeqsNoDup(S, lo, hi) ==
  UNION {{s \in [1..n -> S] : IsInjective(s)} : n \in lo..hi}

(* ------------------- file names of the model cache -------------------- *)

Digits == <<"0", "1", "2", "3", "4", "5", "6", "7", "8", "9">>
DigitChar(d) == Digits[d + 1]
IsDigit(c) == \E d \in 0..9 : Digits[d + 1] = c
DigitVal(c) == CHOOSE d \in 0..9 : Digits[d + 1] = c

RECURSIVE Str(_)
\* str(region_id) for a non-negative int
Str(n) == IF n < 10 THEN <<DigitChar(n)>> ELSE Str(n \div 10) \o <<DigitChar(n % 10)>>

RECURSIVE ParseInt(_)
\* int(text) for a non-empty string of digits
ParseInt(s) == IF Len(s) = 1 THEN DigitVal(s[1])
               ELSE 10 * ParseInt(SubSeq(s, 1, Len(s) - 1)) + DigitVal(s[Len(s)])

IsInt(s) == Len(s) > 0 /\ \A i \in 1..Len(s) : IsDigit(s[i])

\* ".".join([str(region_id), "pkl"])
PklName(region_id) == Str(region_id) \o <<".">> \o <<"p", "k", "l">>

\* file.name.split(".")[0]
SplitFirst(name) ==
  IF \E i \in 1..Len(name) : name[i] = "."
  THEN SubSeq(name, 1, (CHOOSE i \in 1..Len(name) :
                          name[i] = "." /\ \A j \in 1..(i - 1) : name[j] # ".") - 1)
  ELSE name

(* --------------------------- data frames ------------------------------ *)

NoCol == 0
NoModel == [task |-> 0, region |-> 0, scenario |-> 0]

\* the towns layer of TransportFrame: rows of (index label, territory_id);
\* territory_id = NoCol in every row when the layer has no such column
CitiesWithTerritoryId ==
  {c \in UNION {[1..n -> [idx : Labels, territory_id : TownIds]] : n \in 0..MaxTowns} :
     /\ IsInjective([i \in 1..Len(c) |-> c[i].idx])
     /\ IsInjective([i \in 1..Len(c) |-> c[i].territory_id])}
CitiesIndexOnly ==
  {[i \in 1..Len(s) |-> [idx |-> s[i], territory_id |-> NoCol]] :
     s \in SeqsNoDup(TownIds, 0, MaxTowns)}
AllCities == CitiesWithTerritoryId \cup CitiesIndexOnly

\* the adjacency matrix: square, rows and columns carry the same unique labels
AllMatrices == SeqsNoDup(Labels, 0, MaxTowns)

HasTerritoryId(cities) == \E i \in 1..Len(cities) : cities[i].territory_id # NoCol

\* cities_gdf["original_index"] = index; set_index("territory_id")
SetIndexTerritoryId(cities) ==
  IF HasTerritoryId(cities)
  THEN [i \in 1..Len(cities) |->
          [idx |-> cities[i].territory_id, original_index |-> cities[i].idx]]
  ELSE [i \in 1..Len(cities) |-> [idx |-> cities[i].idx, original_index |-> NoCol]]

Index(frame) == [i \in 1..Len(frame) |-> frame[i].idx]

RECURSIVE MergePopulation(_, _)
\* pd.merge(cities_gdf, population_data_df, left_index=True, right_on="territory_id")
\* followed by set_index("territory_id"): an inner join in the order of the left keys
MergePopulation(left, population) ==
  IF left = <<>> THEN <<>>
  ELSE LET hits == SelectSeq(population, LAMBDA p : p = Head(left).idx)
       IN [j \in 1..Len(hits) |->
             [idx |-> hits[j], original_index |-> Head(left).original_index]]
          \o MergePopulation(Tail(left), population)

\* LevelFiller(towns=cities_gdf).fill_levels(): the towns with their level,
\* same index, without the original_index column
FillLevels(cities) == Index(cities)

RECURSIVE MergeOriginalIndex(_, _)
\* pd.merge(cities_gdf[["original_index"]], towns, left_index=True, right_index=True)
\* followed by set_index("original_index")
MergeOriginalIndex(left, towns) ==
  IF left = <<>> THEN <<>>
  ELSE LET hits == SelectSeq(towns, LAMBDA x : x = Head(left).idx)
       IN [j \in 1..Len(hits) |-> Head(left).original_index]
          \o MergeOriginalIndex(Tail(left), towns)

\* the index of towns handed to matrix.loc and to create_model
RestoreIndex(cities, towns) ==
  IF \E i \in 1..Len(cities) : cities[i].original_index # NoCol
  THEN MergeOriginalIndex(cities, towns)
  ELSE towns

RECURSIVE LocAxis(_, _)
\* label-based selection along one axis: every position carrying the label,
\* label by label in the order asked
LocAxis(labels, index) ==
  IF index = <<>> THEN <<>>
  ELSE SelectSeq(labels, LAMBDA l : l = Head(index)) \o LocAxis(labels, Tail(index))

\* a selection that keeps the rows and columns of the matrix in its own order
Loc_matrix_order(matrix, index) ==
  IF \E i \in 1..Len(index) : index[i] \notin Range(matrix)
  THEN [ok |-> FALSE, rows |-> <<>>, cols |-> <<>>]
  ELSE [ok |-> TRUE,
        rows |-> SelectSeq(matrix, LAMBDA l : l \in Range(index)),
        cols |-> SelectSeq(matrix, LAMBDA l : l \in Range(index))]

\* a selection that passes over the labels the matrix does not have
Loc_drop_missing(matrix, index) ==
  [ok |-> TRUE, rows |-> LocAxis(matrix, index), cols |-> LocAxis(matrix, index)]

\* matrix.loc[towns.index, towns.index]: KeyError when a label is missing
Loc(matrix, index) ==
  IF \E i \in 1..Len(index) : index[i] \notin Range(matrix)
  THEN [ok |-> FALSE, rows |-> <<>>, cols |-> <<>>]
  ELSE [ok |-> TRUE, rows |-> LocAxis(matrix, index), cols |-> LocAxis(matrix, index)]

(* ------------------------------- state -------------------------------- *)

VARIABLES
  cache,    \* the model cache directory: file name -> chunks written so far
  layers,   \* the derived-layer store: set of (region, layer_type, model)
  loop,     \* the task running on the event loop inside a synchronous section, or 0
  op,       \* per task: the operation it was started for
  pc,       \* per task: the await it is suspended at
  reg,      \* per task: region_id of the calculate_model / get_model call in progress
  loc,      \* per task: the locals of calculate_model
  chk,      \* per task: what check_path answered to get_model
  did,      \* per task: the steps the current calculate_model call has started
  todo,     \* per task: regions the batch loop has still to visit
  called,   \* per task: regions calculate_model was invoked for, in order
  ret,      \* per task: outcome of each calculate_model call that ended, in order
  listed,   \* per task: what the startup warmup listed (all regions, cached regions)
  handle,   \* per task: the model inside the PopFrameAPIModel returned by get_model
  event,    \* per task: the bus event its handler is handling
  at,       \* per task: where the handler of the event is
  posted,   \* the requests the handlers sent to the indicator-upload endpoint
  seen,     \* per task: the status the scenario lookup of each computation got
  registry, \* the event kinds a handler is registered for at the consumer
  consumer, \* the state of the bus consumer of BrokerService
  bus,      \* the events published on the bus, with what became of each
  invoked,  \* the handle calls the consumer made, in order
  request,  \* the APIHandler call in progress
  wire,     \* the requests that call has put on the wire, in order
  result,   \* what the APIHandler call gave its caller
  fan,      \* the fan-out of requests in progress: what was asked, sent, answered
  href      \* per task: the locals of get_href and the layers it returned

\* the state of the event handlers, of the broker, and of the requests: an
\* APIHandler call, a fan-out and the get_href calls
hvars == <<event, at, posted, seen>>
bvars == <<registry, consumer, bus, invoked>>
avars == <<request, wire, result, fan, href>>

\* the state of the model service and of its cache and layer store
svars == <<cache, layers, loop, op, pc, reg, loc, chk, did, todo, called, ret, listed,
           handle>>

vars == <<svars, hvars, bvars, avars>>

NoEvent == [kind |-> "none", territory_id |-> 0, scenario_id |-> 0]
NoLookups == [population |-> 0, evaluation |-> 0]
NoRequest ==
  [method |-> "none", endpoint_url |-> "none", headers |-> "none", params |-> <<>>,
   data |-> "none"]

NoResponse ==
  [status |-> 0, content_type |-> "none", body |-> "none", error |-> "absent"]
NoResult == [state |-> "none", last |-> NoResponse, status_code |-> 0]

NoFan ==
  [site |-> "none", state |-> "none", ids |-> <<>>, window |-> 0, sent |-> 0,
   in_flight |-> 0, results |-> <<>>]

NoHref == [agglomeration_check |-> FALSE, cities_check |-> FALSE, layers |-> <<>>]

NoLocals ==
  [scenario |-> 0, cities |-> <<>>, towns |-> <<>>, fetched |-> FALSE,
   matrix |-> <<>>, adj |-> [rows |-> <<>>, cols |-> <<>>], model |-> NoModel]

NoListing == [state |-> "none", all |-> <<>>, cached |-> {}]

\* get_base_regional_scenario_by_territory: the id of the region's base scenario
BaseScenario(region_id) == 100 + (region_id % 100)

\* a complete pickle of a model
Pickle(model) == [i \in 1..PickleLen |-> model]
IsComplete(chunks) == Len(chunks) = PickleLen

\* what an earlier run of the service left in the cache directory
OldModel(region_id) ==
  [task |-> 0, region |-> region_id, scenario |-> BaseScenario(region_id)]
CacheOf(cached) ==
  [f \in {PklName(r) : r \in cached} |->
     Pickle(OldModel(CHOOSE r \in cached : PklName(r) = f))]

\* check_path comparing the file name with the region id alone
check_path_without_extension(region_id) == \E f \in DOMAIN cache : f = Str(region_id)

\* PopFrameCachingService.check_path
check_path(region_id) == \E f \in DOMAIN cache : f = PklName(region_id)

\* PopFrameCachingService.get_available_models; raises when a name is no int
get_available_models ==
  IF \A f \in DOMAIN cache : IsInt(SplitFirst(f))
  THEN [ok |-> TRUE, regions |-> {ParseInt(SplitFirst(f)) : f \in DOMAIN cache}]
  ELSE [ok |-> FALSE, regions |-> {}]

\* validate_region: FALSE stands for the 400 it raises
validate_region(region_id) == region_id # Disallowed

InitWith(cached) ==
  /\ cache = CacheOf(cached)
  /\ layers = {}
  /\ loop = 0
  /\ op = [t \in Tasks |-> "idle"]
  /\ pc = [t \in Tasks |-> "idle"]
  /\ reg = [t \in Tasks |-> 0]
  /\ loc = [t \in Tasks |-> NoLocals]
  /\ chk = [t \in Tasks |-> "none"]
  /\ did = [t \in Tasks |-> {}]
  /\ todo = [t \in Tasks |-> <<>>]
  /\ called = [t \in Tasks |-> <<>>]
  /\ ret = [t \in Tasks |-> <<>>]
  /\ listed = [t \in Tasks |-> NoListing]
  /\ handle = [t \in Tasks |-> NoModel]
  /\ event = [t \in Tasks |-> NoEvent]
  /\ at = [t \in Tasks |-> "none"]
  /\ posted = {}
  /\ seen = [t \in Tasks |-> NoLookups]
  /\ registry = {}
  /\ consumer = "created"
  /\ bus = <<>>
  /\ invoked = <<>>
  /\ request = NoRequest
  /\ wire = <<>>
  /\ result = NoResult
  /\ fan = NoFan
  /\ href = [t \in Tasks |-> NoHref]

Init == \E cached \in SUBSET (Regions \ {Disallowed}) : InitWith(cached)

\* the task may run: the loop is free, or it is the one inside the section
Runs(t) == loop \in {0, t}

BatchOps == {"load_and_cache_all_models", "load_and_cache_all_models_on_startup"}

(* ------------------- control flow of calculate_model ------------------ *)

\* calculate_model(region_id) is invoked by task t: everything up to its first await
Invoke(t, o, region_id, rest) ==
  /\ op' = [op EXCEPT ![t] = o]
  /\ pc' = [pc EXCEPT ![t] = "get_base_regional_scenario"]
  /\ reg' = [reg EXCEPT ![t] = region_id]
  /\ loc' = [loc EXCEPT ![t] = NoLocals]
  /\ did' = [did EXCEPT ![t] = {}]
  /\ todo' = [todo EXCEPT ![t] = rest]
  /\ called' = [called EXCEPT ![t] = Append(@, region_id)]

\* calculate_model goes on to its next await
Advance(t, next, locals, events) ==
  /\ pc' = [pc EXCEPT ![t] = next]
  /\ loc' = [loc EXCEPT ![t] = locals]
  /\ did' = [did EXCEPT ![t] = @ \cup events]
  /\ UNCHANGED <<op, reg, chk, todo, called, ret, listed, handle>>

\* a batch loop without its try/except: the first failure ends the loop
Leave_raises(t, ok, locals, events) ==
  /\ ret' = [ret EXCEPT ![t] = Append(@, ok)]
  /\ UNCHANGED <<chk, listed, handle>>
  /\ IF op[t] \in BatchOps /\ todo[t] # <<>> /\ ok
     THEN Invoke(t, op[t], Head(todo[t]), Tail(todo[t]))
     ELSE /\ pc' = [pc EXCEPT ![t] =
                      IF ~ok THEN "failed"
                      ELSE IF op[t] = "get_model" THEN "load_cached_model"
                      ELSE "done"]
          /\ loc' = [loc EXCEPT ![t] = locals]
          /\ did' = [did EXCEPT ![t] = @ \cup events]
          /\ UNCHANGED <<op, reg, todo, called>>

\* calculate_model returns (ok) or raises (~ok): what its caller does next
Leave(t, ok, locals, events) ==
  /\ ret' = [ret EXCEPT ![t] = Append(@, ok)]
  /\ UNCHANGED <<chk, listed, handle>>
  /\ IF op[t] \in BatchOps /\ todo[t] # <<>>
     THEN \* except Exception: logger.exception(e); the loop goes on
          Invoke(t, op[t], Head(todo[t]), Tail(todo[t]))
     ELSE /\ pc' = [pc EXCEPT ![t] =
                      IF op[t] \in BatchOps THEN "done"
                      ELSE IF ~ok THEN "failed"
                      ELSE IF op[t] = "get_model" THEN "load_cached_model"
                      ELSE IF op[t] = "get_href" THEN "check_agglomerations"
                      ELSE "done"]
          /\ loc' = [loc EXCEPT ![t] = locals]
          /\ did' = [did EXCEPT ![t] = @ \cup events]
          /\ UNCHANGED <<op, reg, todo, called>>

(* --------------------------- calculate_model -------------------------- *)

\* base_regional_scenario = await get_base_regional_scenario_by_territory(region_id);
\* validate_region(region_id); then the request for the borders goes out
get_base_regional_scenario(t) ==
  /\ pc[t] = "get_base_regional_scenario" /\ Runs(t)
  /\ \E ok \in BOOLEAN :
       IF ok /\ validate_region(reg[t])
       THEN Advance(t, "get_region_borders",
                    [loc[t] EXCEPT !.scenario = BaseScenario(reg[t])],
                    {"get_base_regional_scenario"})
       ELSE Leave(t, FALSE, loc[t], {"get_base_regional_scenario"})
  /\ UNCHANGED <<cache, layers, loop>>
  /\ UNCHANGED <<hvars, bvars, avars>>

\* a pipeline that asks for the population without having fetched the towns
get_region_borders_skips_towns(t) ==
  /\ pc[t] = "get_region_borders" /\ Runs(t)
  /\ \E ok \in BOOLEAN :
       IF ok
       THEN Advance(t, "get_population", loc[t], {"get_region_borders"})
       ELSE Leave(t, FALSE, loc[t], {"get_region_borders"})
  /\ UNCHANGED <<cache, layers, loop>>
  /\ UNCHANGED <<hvars, bvars, avars>>

\* region_borders = await get_region_borders(region_id)
get_region_borders(t) ==
  /\ pc[t] = "get_region_borders" /\ Runs(t)
  /\ \E ok \in BOOLEAN :
       IF ok
       THEN Advance(t, "get_tf_cities", loc[t], {"get_region_borders"})
       ELSE Leave(t, FALSE, loc[t], {"get_region_borders"})
  /\ UNCHANGED <<cache, layers, loop>>
  /\ UNCHANGED <<hvars, bvars, avars>>

\* cities_gdf = await get_tf_cities(region_id); the territory_id column, when
\* there is one, becomes the index and the old index is kept in original_index
get_tf_cities(t, Cities) ==
  /\ pc[t] = "get_tf_cities" /\ Runs(t)
  /\ \E ok \in BOOLEAN, cities_gdf \in Cities :
       IF ok
       THEN Advance(t, "get_population",
                    [loc[t] EXCEPT !.cities = SetIndexTerritoryId(cities_gdf)],
                    {"get_tf_cities"})
       ELSE Leave(t, FALSE, loc[t], {"get_tf_cities"})
  /\ UNCHANGED <<cache, layers, loop>>
  /\ UNCHANGED <<hvars, bvars, avars>>

\* the rows get_regional_scenario_territories_population answers with for the
\* ids asked, when upstream has no value for the territories in missing
Population(asked, missing) == SelectSeq(asked, LAMBDA id : id \notin missing)

\* population_data_df = await get_regional_scenario_territories_population(...);
\* merge on territory_id, set_index, LevelFiller.fill_levels
get_population(t, Missing) ==
  /\ pc[t] = "get_population" /\ Runs(t)
  /\ \E ok \in BOOLEAN, missing \in Missing :
       IF ok
       THEN LET population_data_df == Population(Index(loc[t].cities), missing)
                cities_gdf == MergePopulation(loc[t].cities, population_data_df)
            IN Advance(t, "get_matrix_for_region",
                       [loc[t] EXCEPT !.cities = cities_gdf,
                                      !.towns = FillLevels(cities_gdf)],
                       {"get_population"})
       ELSE Leave(t, FALSE, loc[t], {"get_population"})
  /\ UNCHANGED <<cache, layers, loop>>
  /\ UNCHANGED <<hvars, bvars, avars>>

\* a model that is always built for the base scenario of the region
NewModel_of_base_scenario(t) ==
  [task |-> t, region |-> reg[t], scenario |-> BaseScenario(reg[t])]

\* the model create_model builds for task t
NewModel(t) == [task |-> t, region |-> reg[t], scenario |-> loc[t].scenario]

\* matrix = await get_matrix_for_region(...); the original index is restored,
\* the matrix is sliced, create_model builds the Region, and
\* cache_model_to_pickle opens <region_id>.pkl for writing
get_matrix_for_region(t, Matrices) ==
  /\ pc[t] = "get_matrix_for_region" /\ Runs(t)
  /\ \E ok \in BOOLEAN, matrix \in Matrices, built \in BOOLEAN, opened \in BOOLEAN :
       LET towns == RestoreIndex(loc[t].cities, loc[t].towns)
           sliced == Loc(matrix, towns)
           fetched == [loc[t] EXCEPT !.towns = towns, !.fetched = TRUE,
                                     !.matrix = matrix]
           args == [fetched EXCEPT !.adj = [rows |-> sliced.rows,
                                            cols |-> sliced.cols]]
       IN IF ~ok
          THEN /\ Leave(t, FALSE, loc[t], {"get_matrix_for_region"})
               /\ UNCHANGED <<cache, loop>>
          ELSE IF ~sliced.ok
          THEN \* KeyError
               /\ Leave(t, FALSE, fetched, {"get_matrix_for_region"})
               /\ UNCHANGED <<cache, loop>>
          ELSE IF ~built
          THEN \* Region(...) raises: 500
               /\ Leave(t, FALSE, args, {"get_matrix_for_region", "create_model"})
               /\ UNCHANGED <<cache, loop>>
          ELSE IF ~opened
          THEN \* open() raises: 500, nothing on disk has changed
               /\ Leave(t, FALSE, [args EXCEPT !.model = NewModel(t)],
                        {"get_matrix_for_region", "create_model",
                         "cache_model_to_pickle"})
               /\ UNCHANGED <<cache, loop>>
          ELSE \* the file is created or truncated; the write goes on in the loop
               /\ Advance(t, "to_pickle", [args EXCEPT !.model = NewModel(t)],
                          {"get_matrix_for_region", "create_model",
                           "cache_model_to_pickle"})
               /\ cache' = [f \in DOMAIN cache \cup {PklName(reg[t])} |->
                              IF f = PklName(reg[t]) THEN <<>> ELSE cache[f]]
               /\ loop' = t
  /\ UNCHANGED layers
  /\ UNCHANGED <<hvars, bvars, avars>>

\* a write that gives the loop back after every chunk
to_pickle_yields(t) ==
  /\ pc[t] = "to_pickle" /\ Runs(t)
  /\ LET f == PklName(reg[t])
         chunks == Append(cache[f], loc[t].model)
     IN /\ cache' = [cache EXCEPT ![f] = chunks]
        /\ loop' = 0
        /\ IF Len(chunks) < PickleLen
           THEN UNCHANGED <<op, pc, reg, loc, chk, did, todo, called, ret, listed,
                            handle>>
           ELSE \E derived \in BOOLEAN :
                  IF derived
                  THEN Advance(t, "upload_scenario_indicators", loc[t],
                               {"to_pickle"})
                  ELSE Leave(t, FALSE, loc[t], {"to_pickle"})
  /\ UNCHANGED layers
  /\ UNCHANGED <<hvars, bvars, avars>>

\* a write whose file is removed when the computation of the derived layers fails
to_pickle_rolls_back(t) ==
  /\ pc[t] = "to_pickle" /\ loop = t
  /\ LET f == PklName(reg[t])
         chunks == Append(cache[f], loc[t].model)
     IN IF ~IsComplete(chunks)
        THEN /\ cache' = [cache EXCEPT ![f] = chunks]
             /\ UNCHANGED <<loop, op, pc, reg, loc, chk, did, todo, called, ret,
                            listed, handle>>
        ELSE /\ loop' = 0
             /\ \E derived \in BOOLEAN :
                  IF derived
                  THEN /\ cache' = [cache EXCEPT ![f] = chunks]
                       /\ Advance(t, "upload_scenario_indicators", loc[t],
                                  {"to_pickle"})
                  ELSE /\ cache' = [g \in DOMAIN cache \ {f} |-> cache[g]]
                       /\ Leave(t, FALSE, loc[t], {"to_pickle"})
  /\ UNCHANGED layers
  /\ UNCHANGED <<hvars, bvars, avars>>

\* region_model.to_pickle(string_path) writes the next chunk; after the last one
\* the file is closed, the derived layers are computed and the indicators request
\* goes out
to_pickle(t) ==
  /\ pc[t] = "to_pickle" /\ loop = t
  /\ LET f == PklName(reg[t])
         chunks == Append(cache[f], loc[t].model)
     IN /\ cache' = [cache EXCEPT ![f] = chunks]
        /\ IF ~IsComplete(chunks)
           THEN UNCHANGED <<loop, op, pc, reg, loc, chk, did, todo, called, ret, listed,
                            handle>>
           ELSE /\ loop' = 0
                /\ \E derived \in BOOLEAN :
                     IF derived
                     THEN Advance(t, "upload_scenario_indicators", loc[t],
                                  {"to_pickle"})
                     ELSE Leave(t, FALSE, loc[t], {"to_pickle"})
  /\ UNCHANGED layers
  /\ UNCHANGED <<hvars, bvars, avars>>

\* a failed write that removes the file it had opened
to_pickle_raises_unlinks(t) ==
  /\ pc[t] = "to_pickle" /\ loop = t
  /\ loop' = 0
  /\ Leave(t, FALSE, loc[t], {})
  /\ cache' = [f \in DOMAIN cache \ {PklName(reg[t])} |-> cache[f]]
  /\ UNCHANGED layers
  /\ UNCHANGED <<hvars, bvars, avars>>

\* to_pickle raises in the middle of the write: logger.exception, 500; the file
\* stays as far as it was written
to_pickle_raises(t) ==
  /\ pc[t] = "to_pickle" /\ loop = t
  /\ loop' = 0
  /\ Leave(t, FALSE, loc[t], {})
  /\ UNCHANGED <<cache, layers>>
  /\ UNCHANGED <<hvars, bvars, avars>>

\* await upload_scenario_indicators(agglomeration_indicators, region_id, scenario)
upload_scenario_indicators(t) ==
  /\ pc[t] = "upload_scenario_indicators" /\ Runs(t)
  /\ \E ok \in BOOLEAN :
       IF ok
       THEN Advance(t, IF op[t] = "calculate_regional_scenario_model"
                       THEN "get_hexagons" ELSE "delete_geoserver_cached_layers",
                    loc[t], {"upload_scenario_indicators"})
       ELSE Leave(t, FALSE, loc[t], {"upload_scenario_indicators"})
  /\ UNCHANGED <<cache, layers, loop>>
  /\ UNCHANGED <<hvars, bvars, avars>>

\* GeoserverStorage.delete_geoserver_cached_layers: every layer of the region goes
delete_layers(store, region_id) == {l \in store : l.region # region_id}

\* GeoserverStorage.save_gdf_to_geoserver: one more layer in the store
save_gdf(store, region_id, layer_type, model) ==
  store \cup {[region |-> region_id, layer_type |-> layer_type, model |-> model]}

\* await geoserver_storage.delete_geoserver_cached_layers(region_id)
delete_geoserver_cached_layers(t) ==
  /\ pc[t] = "delete_geoserver_cached_layers" /\ Runs(t)
  /\ \E ok \in BOOLEAN :
       IF ok
       THEN /\ layers' = delete_layers(layers, reg[t])
            /\ Advance(t, "save_agglomerations", loc[t],
                       {"delete_geoserver_cached_layers"})
       ELSE /\ UNCHANGED layers
            /\ Leave(t, FALSE, loc[t], {"delete_geoserver_cached_layers"})
  /\ UNCHANGED <<cache, loop>>
  /\ UNCHANGED <<hvars, bvars, avars>>

\* await save_gdf_to_geoserver(agglomeration_gdf, layer_type="agglomerations")
save_agglomerations(t) ==
  /\ pc[t] = "save_agglomerations" /\ Runs(t)
  /\ \E ok \in BOOLEAN :
       IF ok
       THEN /\ layers' = save_gdf(layers, reg[t], "agglomerations", loc[t].model)
            /\ Advance(t, "save_cities", loc[t], {"save_agglomerations"})
       ELSE /\ UNCHANGED layers
            /\ Leave(t, FALSE, loc[t], {"save_agglomerations"})
  /\ UNCHANGED <<cache, loop>>
  /\ UNCHANGED <<hvars, bvars, avars>>

\* await save_gdf_to_geoserver(towns_with_status, layer_type="cities"); return
save_cities(t) ==
  /\ pc[t] = "save_cities" /\ Runs(t)
  /\ \E ok \in BOOLEAN :
       IF ok
       THEN /\ layers' = save_gdf(layers, reg[t], "cities", loc[t].model)
            /\ Leave(t, TRUE, loc[t], {"save_cities"})
       ELSE /\ UNCHANGED layers
            /\ Leave(t, FALSE, loc[t], {"save_cities"})
  /\ UNCHANGED <<cache, loop>>
  /\ UNCHANGED <<hvars, bvars, avars>>

(* ------------------- calculate_regional_scenario_model ---------------- *)

\* the awaited calls that are given a scenario id, and the id task t gives them:
\* the population request, the upload of the agglomeration-status indicators and
\* the upload of the hexagon scores
ScenarioCalls ==
  {"get_population", "upload_scenario_indicators", "upload_hexagons_indicators"}
ScenarioArg(t) == loc[t].scenario

\* a scenario calculation that works with the base scenario of the region
calculate_regional_scenario_model_base(t, region_id, regional_scenario_id) ==
  /\ op[t] = "idle" /\ loop = 0
  /\ op' = [op EXCEPT ![t] = "calculate_regional_scenario_model"]
  /\ pc' = [pc EXCEPT ![t] = "get_region_borders"]
  /\ reg' = [reg EXCEPT ![t] = region_id]
  /\ loc' = [loc EXCEPT ![t] = [NoLocals EXCEPT !.scenario = BaseScenario(region_id)]]
  /\ did' = [did EXCEPT ![t] = {}]
  /\ UNCHANGED <<cache, layers, loop, chk, todo, called, ret, listed, handle>>
  /\ UNCHANGED <<hvars, bvars, avars>>

\* calculate_regional_scenario_model(region_id, regional_scenario_id) is invoked
\* (RegionScenarioHandler.handle): up to its first await, get_region_borders
calculate_regional_scenario_model(t, region_id, regional_scenario_id) ==
  /\ op[t] = "idle" /\ loop = 0
  /\ op' = [op EXCEPT ![t] = "calculate_regional_scenario_model"]
  /\ pc' = [pc EXCEPT ![t] = "get_region_borders"]
  /\ reg' = [reg EXCEPT ![t] = region_id]
  /\ loc' = [loc EXCEPT ![t] = [NoLocals EXCEPT !.scenario = regional_scenario_id]]
  /\ did' = [did EXCEPT ![t] = {}]
  /\ UNCHANGED <<cache, layers, loop, chk, todo, called, ret, listed, handle>>
  /\ UNCHANGED <<hvars, bvars, avars>>

\* hexagons = await get_hexagons(region_id); get_population_criterion_score
\* scores them against the model
get_hexagons(t) ==
  /\ pc[t] = "get_hexagons" /\ Runs(t)
  /\ \E ok \in BOOLEAN, scored \in BOOLEAN :
       IF ok /\ scored
       THEN Advance(t, "upload_hexagons_indicators", loc[t], {"get_hexagons"})
       ELSE Leave(t, FALSE, loc[t], {"get_hexagons"})
  /\ UNCHANGED <<cache, layers, loop>>
  /\ UNCHANGED <<hvars, bvars, avars>>

\* await upload_hexagons_indicators(hexagons, regional_scenario_id, region_id); return
upload_hexagons_indicators(t) ==
  /\ pc[t] = "upload_hexagons_indicators" /\ Runs(t)
  /\ \E ok \in BOOLEAN : Leave(t, ok, loc[t], {"upload_hexagons_indicators"})
  /\ UNCHANGED <<cache, layers, loop>>
  /\ UNCHANGED <<hvars, bvars, avars>>

(* ------------------------------ get_model ----------------------------- *)

\* a read that loses the scenario the model was built for
Unpickle_lossy(chunks) ==
  IF IsComplete(chunks) /\ \A i \in 1..Len(chunks) : chunks[i] = chunks[1]
  THEN [ok |-> TRUE, model |-> [chunks[1] EXCEPT !.scenario = 0]]
  ELSE [ok |-> FALSE, model |-> NoModel]

\* Region.from_pickle on the bytes found in the file
Unpickle(chunks) ==
  IF IsComplete(chunks) /\ \A i \in 1..Len(chunks) : chunks[i] = chunks[1]
  THEN [ok |-> TRUE, model |-> chunks[1]]
  ELSE [ok |-> FALSE, model |-> NoModel]

\* get_model that recalculates whatever check_path answered
get_model_always_calculates(t, region_id) ==
  /\ op[t] = "idle" /\ loop = 0
  /\ chk' = [chk EXCEPT ![t] = IF check_path(region_id) THEN "hit" ELSE "miss"]
  /\ Invoke(t, "get_model", region_id, <<>>)
  /\ UNCHANGED <<cache, layers, loop, ret, listed, handle>>
  /\ UNCHANGED <<hvars, bvars, avars>>

\* PopFrameModelsService.get_model up to its first await: check_path, then either
\* calculate_model is invoked or the read is handed to a worker thread
get_model(t, region_id) ==
  /\ op[t] = "idle" /\ loop = 0
  /\ IF check_path(region_id)
     THEN /\ chk' = [chk EXCEPT ![t] = "hit"]
          /\ op' = [op EXCEPT ![t] = "get_model"]
          /\ pc' = [pc EXCEPT ![t] = "load_cached_model"]
          /\ reg' = [reg EXCEPT ![t] = region_id]
          /\ UNCHANGED <<loc, did, todo, called>>
     ELSE /\ chk' = [chk EXCEPT ![t] = "miss"]
          /\ Invoke(t, "get_model", region_id, <<>>)
  /\ UNCHANGED <<cache, layers, loop, ret, listed, handle>>
  /\ UNCHANGED <<hvars, bvars, avars>>

\* PopFrameCachingService.load_cached_model: the worker thread reads the file,
\* whatever the event loop is doing at that moment; get_model wraps the model
load_cached_model(t) ==
  /\ pc[t] = "load_cached_model"
  /\ LET f == PklName(reg[t])
         read == IF f \in DOMAIN cache THEN Unpickle(cache[f])
                 ELSE [ok |-> FALSE, model |-> NoModel]
     IN /\ pc' = [pc EXCEPT ![t] = IF read.ok THEN "done" ELSE "failed"]
        /\ handle' = [handle EXCEPT ![t] = read.model]
  /\ UNCHANGED <<cache, layers, loop, op, reg, loc, chk, did, todo, called, ret, listed>>
  /\ UNCHANGED <<hvars, bvars, avars>>

(* ------------------------- recalculate_region ------------------------- *)

\* a forced recompute that drops the cache entry of the region before it starts
recalculate_region_evicts(t, region_id) ==
  /\ op[t] = "idle" /\ loop = 0
  /\ IF validate_region(region_id)
     THEN Invoke(t, "recalculate_region", region_id, <<>>)
     ELSE /\ op' = [op EXCEPT ![t] = "recalculate_region"]
          /\ pc' = [pc EXCEPT ![t] = "failed"]
          /\ reg' = [reg EXCEPT ![t] = region_id]
          /\ UNCHANGED <<loc, did, todo, called>>
  /\ cache' = [f \in DOMAIN cache \ {PklName(region_id)} |-> cache[f]]
  /\ UNCHANGED <<layers, loop, chk, ret, listed, handle>>
  /\ UNCHANGED <<hvars, bvars, avars>>

\* PUT /model_calculator/recalculate/{region_id} with model=True, up to the
\* first await of calculate_model
recalculate_region(t, region_id) ==
  /\ op[t] = "idle" /\ loop = 0
  /\ IF validate_region(region_id)
     THEN Invoke(t, "recalculate_region", region_id, <<>>)
     ELSE /\ op' = [op EXCEPT ![t] = "recalculate_region"]
          /\ pc' = [pc EXCEPT ![t] = "failed"]
          /\ reg' = [reg EXCEPT ![t] = region_id]
          /\ UNCHANGED <<loc, did, todo, called>>
  /\ UNCHANGED <<cache, layers, loop, chk, ret, listed, handle>>
  /\ UNCHANGED <<hvars, bvars, avars>>

(* --------------------------- batch operations ------------------------- *)

\* load_and_cache_all_models is started (asyncio.create_task) and awaits get_regions
start_load_and_cache_all_models(t) ==
  /\ op[t] = "idle" /\ loop = 0
  /\ op' = [op EXCEPT ![t] = "load_and_cache_all_models"]
  /\ pc' = [pc EXCEPT ![t] = "get_regions"]
  /\ UNCHANGED <<cache, layers, loop, reg, loc, chk, did, todo, called, ret, listed,
                 handle>>
  /\ UNCHANGED <<hvars, bvars, avars>>

\* a batch that starts the calculation of every listed region at once
load_and_cache_all_models_gathers(t, Listings) ==
  /\ op[t] = "load_and_cache_all_models" /\ pc[t] = "get_regions" /\ Runs(t)
  /\ \E ok \in BOOLEAN, regions_ids_to_process \in Listings :
       /\ listed' = [listed EXCEPT ![t] =
                       IF ok THEN [state |-> "listed", all |-> regions_ids_to_process,
                                   cached |-> {}]
                       ELSE [NoListing EXCEPT !.state = "get_regions failed"]]
       /\ IF ok /\ regions_ids_to_process # <<>>
          THEN /\ pc' = [pc EXCEPT ![t] = "get_base_regional_scenario"]
               /\ reg' = [reg EXCEPT ![t] = Head(regions_ids_to_process)]
               /\ called' = [called EXCEPT ![t] = @ \o regions_ids_to_process]
               /\ todo' = [todo EXCEPT ![t] = <<>>]
               /\ UNCHANGED <<op, loc, did>>
          ELSE /\ pc' = [pc EXCEPT ![t] = IF ok THEN "done" ELSE "failed"]
               /\ UNCHANGED <<op, reg, loc, did, todo, called>>
  /\ UNCHANGED <<cache, layers, loop, chk, ret, handle>>
  /\ UNCHANGED <<hvars, bvars, avars>>

\* regions_ids_to_process = await get_regions(); the loop starts
load_and_cache_all_models(t, Listings) ==
  /\ op[t] = "load_and_cache_all_models" /\ pc[t] = "get_regions" /\ Runs(t)
  /\ \E ok \in BOOLEAN, regions_ids_to_process \in Listings :
       /\ listed' = [listed EXCEPT ![t] =
                       IF ok THEN [state |-> "listed", all |-> regions_ids_to_process,
                                   cached |-> {}]
                       ELSE [NoListing EXCEPT !.state = "get_regions failed"]]
       /\ IF ok /\ regions_ids_to_process # <<>>
          THEN Invoke(t, op[t], Head(regions_ids_to_process),
                      Tail(regions_ids_to_process))
          ELSE /\ pc' = [pc EXCEPT ![t] = IF ok THEN "done" ELSE "failed"]
               /\ UNCHANGED <<op, reg, loc, did, todo, called>>
  /\ UNCHANGED <<cache, layers, loop, chk, ret, handle>>
  /\ UNCHANGED <<hvars, bvars, avars>>

\* the lifespan of the app awaits load_and_cache_all_models_on_startup, which
\* awaits get_regions
start_load_and_cache_all_models_on_startup(t) ==
  /\ \A u \in Tasks : op[u] = "idle"
  /\ loop = 0
  /\ op' = [op EXCEPT ![t] = "load_and_cache_all_models_on_startup"]
  /\ pc' = [pc EXCEPT ![t] = "get_regions"]
  /\ UNCHANGED <<cache, layers, loop, reg, loc, chk, did, todo, called, ret, listed,
                 handle>>
  /\ UNCHANGED <<hvars, bvars, avars>>

\* a warmup that recalculates every region listed
RegionsToCalculate_all(all_regions, cached_regions) == Range(all_regions)

\* regions_to_calculate = list(set(all_regions) - set(cached_regions))
RegionsToCalculate(all_regions, cached_regions) == Range(all_regions) \ cached_regions

\* a warmup that lets the exception of the listing out
abandon_warmup_raises(t, failure) ==
  /\ listed' = [listed EXCEPT ![t] = [NoListing EXCEPT !.state = failure]]
  /\ pc' = [pc EXCEPT ![t] = "failed"]
  /\ UNCHANGED <<op, reg, loc, did, todo, called>>

\* except Exception as e: logger.exception(e); return
abandon_warmup(t, failure) ==
  /\ listed' = [listed EXCEPT ![t] = [NoListing EXCEPT !.state = failure]]
  /\ pc' = [pc EXCEPT ![t] = "done"]
  /\ UNCHANGED <<op, reg, loc, did, todo, called>>

\* all_regions = await get_regions(); cached_regions = await get_available_regions();
\* the difference is computed and the loop starts, in the order list(set) gives
load_and_cache_all_models_on_startup(t, Listings) ==
  /\ op[t] = "load_and_cache_all_models_on_startup" /\ pc[t] = "get_regions" /\ Runs(t)
  /\ \E ok \in BOOLEAN, all_regions \in Listings, readable \in BOOLEAN :
       LET cached_regions == IF readable THEN get_available_models
                             ELSE [ok |-> FALSE, regions |-> {}]
           difference == RegionsToCalculate(all_regions, cached_regions.regions)
       IN IF ~ok
          THEN abandon_warmup(t, "get_regions failed")
          ELSE IF ~cached_regions.ok
          THEN abandon_warmup(t, "get_available_regions failed")
          ELSE /\ listed' = [listed EXCEPT ![t] =
                               [state |-> "listed", all |-> all_regions,
                                cached |-> cached_regions.regions]]
               /\ IF difference = {}
                  THEN /\ pc' = [pc EXCEPT ![t] = "done"]
                       /\ UNCHANGED <<op, reg, loc, did, todo, called>>
                  ELSE \E regions_to_calculate \in
                            SeqsNoDup(difference, Cardinality(difference),
                                      Cardinality(difference)) :
                         Invoke(t, op[t], Head(regions_to_calculate),
                                Tail(regions_to_calculate))
  /\ UNCHANGED <<cache, layers, loop, chk, ret, handle>>
  /\ UNCHANGED <<hvars, bvars, avars>>

(* ---------------------------- ProjectHandler -------------------------- *)

\* the statuses the upstream API answers a lookup with
Statuses == {200, 404, 500}

\* ProjectHandler.handle(event, ctx) is called: logger.info, then get_model is
\* called with event.territory_id
ProjectHandler_handle(t, e) ==
  /\ op[t] = "idle" /\ at[t] = "none" /\ loop = 0
  /\ event' = [event EXCEPT ![t] = e]
  /\ at' = [at EXCEPT ![t] = "get_model"]
  /\ UNCHANGED <<svars, posted, seen, bvars, avars>>

\* model = await self.pop_frame_model_service.get_model(event.territory_id)
ProjectHandler_get_model(t) ==
  /\ event[t].kind = "ProjectCreated" /\ at[t] = "get_model"
  /\ get_model(t, event[t].territory_id)

\* get_model raised: the await stands before the try, the exception leaves handle
ProjectHandler_get_model_raises(t) ==
  /\ event[t].kind = "ProjectCreated" /\ at[t] = "get_model"
  /\ op[t] = "get_model" /\ pc[t] = "failed"
  /\ at' = [at EXCEPT ![t] = "raised"]
  /\ UNCHANGED <<svars, event, posted, seen, bvars, avars>>

\* the POSTs to /scenarios/indicators_values one computation sends: one for each
\* result until a response is not 200/201
Posts(t, by, indicator_id, n) ==
  {[task |-> t, by |-> by, indicator_id |-> indicator_id,
    scenario_id |-> event[t].scenario_id, result |-> i] : i \in 1..n}

\* a computation that posts its results whatever the scenario lookup answered
process_population_criterion_ignores_status(t) ==
  /\ event[t].kind = "ProjectCreated" /\ at[t] = "get_model"
  /\ op[t] = "get_model" /\ pc[t] = "done"
  /\ \E scenario_response \in Statuses, n \in 0..MaxResults :
       /\ seen' = [seen EXCEPT ![t].population = scenario_response]
       /\ posted' = posted \cup Posts(t, "population", 197, n)
  /\ at' = [at EXCEPT ![t] = "process_evaluation"]
  /\ UNCHANGED <<svars, event, bvars, avars>>

\* get_model returned; process_population_criterion(model, base_scenario_id, token)
\* runs: scenario lookup, territory lookup, population_criterion, one POST per
\* result; whatever is raised inside is logged there and not raised again
process_population_criterion(t) ==
  /\ event[t].kind = "ProjectCreated" /\ at[t] = "get_model"
  /\ op[t] = "get_model" /\ pc[t] = "done"
  /\ \E scenario_response \in Statuses, territory_response \in Statuses,
        n \in 0..MaxResults :
       /\ seen' = [seen EXCEPT ![t].population = scenario_response]
       /\ posted' = IF scenario_response = 200 /\ territory_response = 200
                    THEN posted \cup Posts(t, "population", 197, n)
                    ELSE posted
  /\ at' = [at EXCEPT ![t] = "process_evaluation"]
  /\ UNCHANGED <<svars, event, bvars, avars>>

\* process_evaluation(model, base_scenario_id, token) runs the same way with
\* evaluate_territory_location and indicator 195; then handle logs and returns
process_evaluation(t) ==
  /\ event[t].kind = "ProjectCreated" /\ at[t] = "process_evaluation"
  /\ \E scenario_response \in Statuses, territory_response \in Statuses,
        n \in 0..MaxResults :
       /\ seen' = [seen EXCEPT ![t].evaluation = scenario_response]
       /\ posted' = IF scenario_response = 200 /\ territory_response = 200
                    THEN posted \cup Posts(t, "evaluation", 195, n)
                    ELSE posted
  /\ at' = [at EXCEPT ![t] = "returned"]
  /\ UNCHANGED <<svars, event, bvars, avars>>

(* ------------------------- RegionScenarioHandler ---------------------- *)

\* RegionScenarioHandler.handle(event, ctx) is called
RegionScenarioHandler_handle(t, e) ==
  /\ op[t] = "idle" /\ at[t] = "none" /\ loop = 0
  /\ event' = [event EXCEPT ![t] = e]
  /\ at' = [at EXCEPT ![t] = "calculate_regional_scenario_model"]
  /\ UNCHANGED <<svars, posted, seen, bvars, avars>>

\* await calculate_regional_scenario_model(event.territory_id, event.scenario_id)
RegionScenarioHandler_calculate(t) ==
  /\ event[t].kind = "RegionalScenarioCreated"
  /\ at[t] = "calculate_regional_scenario_model"
  /\ calculate_regional_scenario_model(t, event[t].territory_id, event[t].scenario_id)

\* the call returned: logger.info and handle returns; the call raised: nothing in
\* handle catches it
RegionScenarioHandler_returns(t) ==
  /\ event[t].kind = "RegionalScenarioCreated"
  /\ at[t] = "calculate_regional_scenario_model"
  /\ op[t] = "calculate_regional_scenario_model" /\ pc[t] \in {"done", "failed"}
  /\ at' = [at EXCEPT ![t] = IF pc[t] = "done" THEN "returned" ELSE "raised"]
  /\ UNCHANGED <<svars, event, posted, seen, bvars, avars>>

(* ----------------------------- BrokerService -------------------------- *)

\* ProjectHandler.__init__(self, config, pop_frame_model_service): the call
\* constructs a handler when it gives both arguments, and raises TypeError otherwise
ProjectHandler_init(given) == given = {"config", "pop_frame_model_service"}

\* BrokerService.register_and_start: register_handler(ProjectHandler(self.config)),
\* add_worker, start of the consumer and of the producer
register_and_start ==
  /\ consumer = "created"
  /\ IF ProjectHandler_init({"config"})
     THEN /\ registry' = registry \cup {"ProjectCreated"}
          /\ \E started \in BOOLEAN :
               consumer' = IF started THEN "started" ELSE "raised"
     ELSE /\ consumer' = "raised"
          /\ UNCHANGED registry
  /\ UNCHANGED <<bus, invoked, svars, hvars, avars>>

\* an event is published on the topic the service was to consume
publish(e) ==
  /\ Len(bus) < MaxEvents
  /\ bus' = Append(bus, [event |-> e, status |-> "published"])
  /\ UNCHANGED <<registry, consumer, invoked, svars, hvars, avars>>

\* after register_and_start the bus has the i-th event for the service: a started
\* consumer calls handle of the handler registered for the kind of the event
deliver(i) ==
  /\ consumer # "created"
  /\ i \in 1..Len(bus) /\ bus[i].status = "published"
  /\ IF consumer = "started" /\ bus[i].event.kind \in registry
     THEN /\ invoked' = Append(invoked, bus[i].event)
          /\ bus' = [bus EXCEPT ![i].status = "handled"]
     ELSE /\ bus' = [bus EXCEPT ![i].status = "unhandled"]
          /\ UNCHANGED invoked
  /\ UNCHANGED <<registry, consumer, svars, hvars, avars>>

(* ------------------------------ APIHandler ---------------------------- *)

\* query parameters: a sequence of values, <<>> for None; "True" and "False" are
\* the Python bools, the other values are strings
check_request_params(params) ==
  [i \in 1..Len(params) |->
     IF params[i] = "True" THEN "true"
     ELSE IF params[i] = "False" THEN "false" ELSE params[i]]

\* what session.get / post / put / delete sends for the arguments of a call:
\* get sends no body, post and put send json=data, delete sends data=data
OnWire(r) ==
  [method |-> r.method, url |-> <<"base_url", r.endpoint_url>>,
   headers |-> r.headers, params |-> check_request_params(r.params),
   body |-> IF r.method = "get" THEN "none" ELSE r.data]

\* the answers of the upstream API: status, content type, what the body decodes
\* to as JSON ("object", "null" for null or an empty body, "text" for no JSON) and
\* the "error" member of a JSON object
Responses ==
  {[status |-> 200, content_type |-> "application/json", body |-> "object",
    error |-> "absent"],
   [status |-> 201, content_type |-> "application/json", body |-> "object",
    error |-> "absent"],
   [status |-> 200, content_type |-> "application/json", body |-> "null",
    error |-> "absent"],
   [status |-> 500, content_type |-> "application/json", body |-> "object",
    error |-> "read: connection reset by peer"],
   [status |-> 500, content_type |-> "application/json", body |-> "object",
    error |-> "internal error"],
   [status |-> 500, content_type |-> "application/json", body |-> "object",
    error |-> "absent"],
   [status |-> 500, content_type |-> "text/plain", body |-> "text",
    error |-> "absent"],
   [status |-> 404, content_type |-> "application/json", body |-> "object",
    error |-> "absent"],
   [status |-> 404, content_type |-> "application/json", body |-> "text",
    error |-> "absent"],
   [status |-> 502, content_type |-> "text/html", body |-> "text",
    error |-> "absent"]}

\* the 500 answer _check_response_status turns into None
IsResetByPeer(response) ==
  /\ response.status = 500
  /\ response.content_type = "application/json"
  /\ response.error # "absent"
  /\ response.error = "read: connection reset by peer"

\* APIHandler._check_response_status: "result", "None" (retry) or "raise";
\* response.json() raises ContentTypeError on another content type and
\* JSONDecodeError on a body that is no JSON, and a JSON null is the Python None
check_response_status(response) ==
  IF response.status \in {200, 201}
  THEN IF response.content_type # "application/json" \/ response.body = "text"
       THEN "raise"
       ELSE IF response.body = "null" THEN "None" ELSE "result"
  ELSE IF IsResetByPeer(response) THEN "None"
  ELSE "raise"

\* the status codes the raised error may carry: http_exception(response.status, ...)
\* has the upstream status; JSONDecodeError has none (0); ContentTypeError, raised
\* by response.json() while the detail of a non-500 error is decoded, has the
\* status or has 0, by the aiohttp release
raised_status_codes(response) ==
  IF response.content_type = "application/json"
  THEN IF response.body = "text" THEN {0} ELSE {response.status}
  ELSE IF response.status = 500 THEN {response.status}
  ELSE {0, response.status}

\* APIHandler.get / post / put / delete is called: the session is opened,
\* check_request_params rewrites params and the request goes out
api_call(method, endpoint_url, headers, params, data) ==
  /\ request = NoRequest
  /\ LET r == [method |-> method, endpoint_url |-> endpoint_url,
               headers |-> headers, params |-> check_request_params(params),
               data |-> IF method = "get" THEN "none" ELSE data]
     IN /\ request' = r
        /\ wire' = <<OnWire(r)>>
  /\ result' = [NoResult EXCEPT !.state = "pending"]
  /\ UNCHANGED <<svars, hvars, bvars, fan, href>>

\* the response arrives: the result is returned, the exception is raised, or, on
\* None, the method calls itself with endpoint_url, headers, params and session;
\* post, put and delete do not pass data, which is then its default, None
api_response(response) ==
  /\ result.state = "pending"
  /\ check_response_status(response) = "None" => Len(wire) < MaxRequests
  /\ LET outcome == check_response_status(response)
         again == [request EXCEPT !.data = "none"]
     IN IF outcome = "None"
        THEN /\ request' = again
             /\ wire' = Append(wire, OnWire(again))
             /\ result' = [result EXCEPT !.last = response]
        ELSE /\ \E status_code \in IF outcome = "raise"
                                     THEN raised_status_codes(response)
                                     ELSE {response.status} :
                  result' = [state |-> IF outcome = "result" THEN "returned"
                                       ELSE "raised",
                             last |-> response, status_code |-> status_code]
             /\ UNCHANGED <<request, wire>>
  /\ UNCHANGED <<svars, hvars, bvars, fan, href>>

(* ------------------------------- get_href ----------------------------- *)

\* GeoserverStorage.check_cached_layers: whether the store has a layer of the
\* type for the region
check_cached_layers(store, region_id, layer_type) ==
  \E l \in store : l.region = region_id /\ l.layer_type = layer_type

\* GET /agglomeration/geoserver/get_href is called, or calls itself: up to the
\* first await, the check for the agglomerations layer
get_href(t, region_id) ==
  /\ op[t] = "idle" /\ loop = 0
  /\ op' = [op EXCEPT ![t] = "get_href"]
  /\ pc' = [pc EXCEPT ![t] = "check_agglomerations"]
  /\ reg' = [reg EXCEPT ![t] = region_id]
  /\ href' = [href EXCEPT ![t] = NoHref]
  /\ UNCHANGED <<cache, layers, loop, loc, chk, did, todo, called, ret, listed,
                 handle>>
  /\ UNCHANGED <<hvars, bvars, request, wire, result, fan>>

\* agglomeration_check = await check_cached_layers(region_id, "agglomerations");
\* an exception becomes the 500 of the except clause
check_agglomerations(t) ==
  /\ op[t] = "get_href" /\ pc[t] = "check_agglomerations" /\ Runs(t)
  /\ \E ok \in BOOLEAN :
       /\ pc' = [pc EXCEPT ![t] = IF ok THEN "check_cities" ELSE "failed"]
       /\ href' = [href EXCEPT ![t].agglomeration_check =
                     ok /\ check_cached_layers(layers, reg[t], "agglomerations")]
  /\ UNCHANGED <<cache, layers, loop, op, reg, loc, chk, did, todo, called, ret,
                 listed, handle>>
  /\ UNCHANGED <<hvars, bvars, request, wire, result, fan>>

\* a get_href that looks for the cities layer under another layer type
check_cities_wrong_layer_type(t) ==
  /\ op[t] = "get_href" /\ pc[t] = "check_cities" /\ Runs(t)
  /\ \E ok \in BOOLEAN :
       LET cities_check == check_cached_layers(layers, reg[t], "towns")
       IN /\ href' = [href EXCEPT ![t].cities_check = ok /\ cities_check]
          /\ IF ~ok
             THEN /\ pc' = [pc EXCEPT ![t] = "failed"]
                  /\ UNCHANGED <<op, reg, loc, did, todo, called>>
             ELSE IF href[t].agglomeration_check /\ cities_check
             THEN /\ pc' = [pc EXCEPT ![t] = "get_agglomerations"]
                  /\ UNCHANGED <<op, reg, loc, did, todo, called>>
             ELSE /\ Len(called[t]) < MaxCalls
                  /\ Invoke(t, "get_href", reg[t], <<>>)
  /\ UNCHANGED <<cache, layers, loop, chk, ret, listed, handle>>
  /\ UNCHANGED <<hvars, bvars, request, wire, result, fan>>

\* cities_check = await check_cached_layers(region_id, "cities"); with both checks
\* true the layers are asked for, else calculate_model(region_id) is invoked
check_cities(t) ==
  /\ op[t] = "get_href" /\ pc[t] = "check_cities" /\ Runs(t)
  /\ \E ok \in BOOLEAN :
       LET cities_check == check_cached_layers(layers, reg[t], "cities")
       IN /\ href' = [href EXCEPT ![t].cities_check = ok /\ cities_check]
          /\ IF ~ok
             THEN /\ pc' = [pc EXCEPT ![t] = "failed"]
                  /\ UNCHANGED <<op, reg, loc, did, todo, called>>
             ELSE IF href[t].agglomeration_check /\ cities_check
             THEN /\ pc' = [pc EXCEPT ![t] = "get_agglomerations"]
                  /\ UNCHANGED <<op, reg, loc, did, todo, called>>
             ELSE /\ Len(called[t]) < MaxCalls
                  /\ Invoke(t, "get_href", reg[t], <<>>)
  /\ UNCHANGED <<cache, layers, loop, chk, ret, listed, handle>>
  /\ UNCHANGED <<hvars, bvars, request, wire, result, fan>>

\* agglomerations = await get_layer_from_geoserver(region_id, "agglomerations")
get_agglomerations(t) ==
  /\ op[t] = "get_href" /\ pc[t] = "get_agglomerations" /\ Runs(t)
  /\ \E ok \in BOOLEAN :
       /\ pc' = [pc EXCEPT ![t] = IF ok THEN "get_cities" ELSE "failed"]
       /\ href' = [href EXCEPT ![t].layers =
                     IF ok THEN <<[region |-> reg[t], layer_type |-> "agglomerations"]>>
                     ELSE <<>>]
  /\ UNCHANGED <<cache, layers, loop, op, reg, loc, chk, did, todo, called, ret,
                 listed, handle>>
  /\ UNCHANGED <<hvars, bvars, request, wire, result, fan>>

\* cities = await get_layer_from_geoserver(region_id, "cities");
\* return [agglomerations, cities]
get_cities(t) ==
  /\ op[t] = "get_href" /\ pc[t] = "get_cities" /\ Runs(t)
  /\ \E ok \in BOOLEAN :
       /\ pc' = [pc EXCEPT ![t] = IF ok THEN "done" ELSE "failed"]
       /\ href' = [href EXCEPT ![t].layers =
                     IF ok THEN Append(@, [region |-> reg[t], layer_type |-> "cities"])
                     ELSE <<>>]
  /\ UNCHANGED <<cache, layers, loop, op, reg, loc, chk, did, todo, called, ret,
                 listed, handle>>
  /\ UNCHANGED <<hvars, bvars, request, wire, result, fan>>

(* ------------------------- fan-out of requests ------------------------ *)

Min(a, b) == IF a <= b THEN a ELSE b

\* the lists of ids a fan-out is asked for
IdLists ==
  UNION {{[k \in 1..n |-> k], [k \in 1..n |-> n + 1 - k]} : n \in 0..MaxIds}

\* i[0]["value"] of the indicator values answered for a territory
PopulationValue(territory_id) == 1000 + territory_id

\* the territory_id of the territories answered for a parent
Subterritories(ter_id) == <<10 * ter_id, 10 * ter_id + 1>>

RECURSIVE Flatten(_)
\* res += [...] over the answers in order
Flatten(answers) ==
  IF answers = <<>> THEN <<>> ELSE Head(answers) \o Flatten(Tail(answers))

\* what gather returns for the requests of ids[lo..hi]: the answers in the order
\* of the awaitables
Gathered(site, ids, lo, hi) ==
  IF site = "get_territories_population"
  THEN [k \in 1..(hi - lo + 1) |-> PopulationValue(ids[lo + k - 1])]
  ELSE Flatten([k \in 1..(hi - lo + 1) |-> Subterritories(ids[lo + k - 1])])

\* await gather(*tasks[0:window]): the first window of requests goes out; with
\* no task there is nothing to await
fan_out(site, ids, window) ==
  /\ fan.state = "none"
  /\ fan' = IF ids = <<>>
            THEN [NoFan EXCEPT !.site = site, !.state = "returned"]
            ELSE [site |-> site, state |-> "gathering", ids |-> ids,
                  window |-> window, sent |-> Min(window, Len(ids)),
                  in_flight |-> Min(window, Len(ids)), results |-> <<>>]
  /\ UNCHANGED <<svars, hvars, bvars, request, wire, result, href>>

\* TownsAPIService.get_territories_population: the coroutines of all the ids are
\* created, then gathered 40 at a time
get_territories_population(territories_ids) ==
  fan_out("get_territories_population", territories_ids, Window)

\* UrbanAPIGateway.get_subterritories_ids_for_ter_ids: one gather over the
\* requests of all the ids
get_subterritories_ids_for_ter_ids(territories_ids) ==
  fan_out("get_subterritories_ids_for_ter_ids", territories_ids,
          Len(territories_ids))

\* TerritoryChecker.check_on_federal_city, federal_cities being None:
\* self.urban_api_gateway.get_countries_ids is no attribute of UrbanAPIGateway,
\* AttributeError before any request of the gather is made
check_on_federal_city ==
  /\ fan.state = "none"
  /\ fan' = [NoFan EXCEPT !.site = "check_on_federal_city", !.state = "raised"]
  /\ UNCHANGED <<svars, hvars, bvars, request, wire, result, href>>

\* one request in flight is answered; with the last one of the window gather
\* returns, and the next window goes out or the function returns
fan_answered ==
  /\ fan.in_flight > 0
  /\ IF fan.in_flight > 1 \/ fan.state = "raised"
     THEN fan' = [fan EXCEPT !.in_flight = @ - 1]
     ELSE LET n == Len(fan.ids)
              lo == fan.sent - ((fan.sent - 1) % fan.window)
              results == fan.results \o Gathered(fan.site, fan.ids, lo, fan.sent)
              more == Min(fan.window, n - fan.sent)
          IN fan' = IF fan.sent < n
                    THEN [fan EXCEPT !.results = results, !.sent = @ + more,
                                     !.in_flight = more]
                    ELSE [fan EXCEPT !.results = results, !.in_flight = 0,
                                     !.state = "returned"]
  /\ UNCHANGED <<svars, hvars, bvars, request, wire, result, href>>

\* one request in flight raises: gather raises it to the caller at once, the
\* other requests of the window stay in flight
fan_raised ==
  /\ fan.in_flight > 0 /\ fan.state = "gathering"
  /\ fan' = [fan EXCEPT !.in_flight = @ - 1, !.state = "raised"]
  /\ UNCHANGED <<svars, hvars, bvars, request, wire, result, href>>

(* --------------------------- specifications --------------------------- *)

\* the towns layer of a region: town k carries the label MaxTowns + 1 - k
TownsLayer == [k \in 1..MaxTowns |-> [idx |-> MaxTowns + 1 - k, territory_id |-> k]]
\* the matrix of all the towns, and one that lacks the last label
FullMatrix == [k \in 1..MaxTowns |-> k]
SomeMatrices == {FullMatrix, SubSeq(FullMatrix, 1, MaxTowns - 1)}

\* the steps of a calculate_model call in progress
Pipeline(t, Cities, Missing, Matrices) ==
  \/ get_base_regional_scenario(t)
  \/ get_region_borders(t)
  \/ get_tf_cities(t, Cities)
  \/ get_population(t, Missing)
  \/ get_matrix_for_region(t, Matrices)
  \/ to_pickle(t)
  \/ to_pickle_raises(t)
  \/ upload_scenario_indicators(t)
  \/ delete_geoserver_cached_layers(t)
  \/ save_agglomerations(t)
  \/ save_cities(t)

\* the service answering requests: get_model callers and recalculate_region
Next ==
  \E t \in Tasks :
    \/ \E region_id \in RequestRegions : get_model(t, region_id)
    \/ \E region_id \in RequestRegions : recalculate_region(t, region_id)
    \/ load_cached_model(t)
    \/ Pipeline(t, {TownsLayer}, {{}}, SomeMatrices)

Spec == Init /\ [][Next]_vars

\* the regional scenarios of the events
Scenarios == {7}

\* the steps only calculate_regional_scenario_model takes
ScenarioTail(t) ==
  \/ get_hexagons(t)
  \/ upload_hexagons_indicators(t)

\* one pipeline run over every towns layer, population answer and matrix
InitAlign == InitWith({})

NextAlign ==
  \/ recalculate_region(1, 1)
  \/ \E regional_scenario_id \in Scenarios :
       calculate_regional_scenario_model(1, 1, regional_scenario_id)
  \/ Pipeline(1, AllCities, SUBSET TownIds, AllMatrices)
  \/ ScenarioTail(1)

SpecAlign == InitAlign /\ [][NextAlign]_vars

\* what get_regions may answer
Listings == SeqsNoDup(Regions, 0, Cardinality(Regions)) \cup {<<1, 1>>}

\* the warmup of the app and the batch recomputation, one at a time
NextWarmup ==
  \/ start_load_and_cache_all_models_on_startup(1)
  \/ load_and_cache_all_models_on_startup(1, Listings)
  \/ start_load_and_cache_all_models(1)
  \/ load_and_cache_all_models(1, Listings)
  \/ Pipeline(1, {TownsLayer}, {{}}, SomeMatrices)

SpecWarmup == Init /\ [][NextWarmup]_vars

\* what get_regions answers while requests are served
CacheListings == {<<1>>, <<2, 1>>}

\* every operation that reaches the cache: the warmup and the batch recomputation
\* on one task, requests and scenario events on the other
NextCache ==
  \/ start_load_and_cache_all_models_on_startup(1)
  \/ load_and_cache_all_models_on_startup(1, CacheListings)
  \/ start_load_and_cache_all_models(1)
  \/ load_and_cache_all_models(1, CacheListings)
  \/ \E region_id \in RequestRegions : get_model(2, region_id)
  \/ \E region_id \in RequestRegions : recalculate_region(2, region_id)
  \/ \E regional_scenario_id \in Scenarios :
       calculate_regional_scenario_model(2, 1, regional_scenario_id)
  \/ load_cached_model(2)
  \/ ScenarioTail(2)
  \/ \E t \in {1, 2} : Pipeline(t, {TownsLayer}, {{}}, SomeMatrices)

SpecCache == Init /\ [][NextCache]_vars

\* get_model(r) called twice in succession: the second call is made once the
\* first has returned its handle, and nothing else runs
NextTwice ==
  \/ \E region_id \in Regions : get_model(1, region_id)
  \/ (op[1] = "get_model" /\ pc[1] = "done") /\ get_model(2, reg[1])
  \/ \E t \in {1, 2} : load_cached_model(t)
  \/ \E t \in {1, 2} : Pipeline(t, {TownsLayer}, {{}}, SomeMatrices)

SpecTwice == Init /\ [][NextTwice]_vars

\* the events the handlers are called with
ProjectEvents ==
  {[kind |-> "ProjectCreated", territory_id |-> r, scenario_id |-> 5] :
     r \in RequestRegions}
ScenarioEvents ==
  {[kind |-> "RegionalScenarioCreated", territory_id |-> r, scenario_id |-> s] :
     r \in RequestRegions, s \in {7, 8}}

\* one handler call for one event, from the call of handle to its end
InitHandlers == \E cached \in SUBSET {1} : InitWith(cached)

NextHandlers ==
  \/ \E e \in ProjectEvents : ProjectHandler_handle(1, e)
  \/ ProjectHandler_get_model(1)
  \/ ProjectHandler_get_model_raises(1)
  \/ process_population_criterion(1)
  \/ process_evaluation(1)
  \/ \E e \in ScenarioEvents : RegionScenarioHandler_handle(1, e)
  \/ RegionScenarioHandler_calculate(1)
  \/ RegionScenarioHandler_returns(1)
  \/ load_cached_model(1)
  \/ Pipeline(1, {TownsLayer}, {{}}, SomeMatrices)
  \/ ScenarioTail(1)

SpecHandlers == InitHandlers /\ [][NextHandlers]_vars

\* the broker: registration, then the events of the bus
NextBroker ==
  \/ register_and_start
  \/ \E e \in ProjectEvents \cup ScenarioEvents : publish(e)
  \/ \E i \in 1..MaxEvents : deliver(i)

SpecBroker == InitWith({}) /\ [][NextBroker]_vars

\* one call of an APIHandler method and the answers it gets
NextApi ==
  \/ \E method \in {"get", "post", "put", "delete"},
        endpoint_url \in {"/scenarios", "/territories"},
        headers \in {"none", "Bearer"},
        params \in {<<>>, <<"True">>, <<"7">>},
        data \in {"none", "indicators"} :
       api_call(method, endpoint_url, headers, params, data)
  \/ \E response \in Responses : api_response(response)

SpecApi == InitWith({}) /\ [][NextApi]_vars

\* two callers of calculate_model side by side: each comes through get_model or
\* through recalculate_region
NextOrder ==
  \E t \in {1, 2} :
    \/ \E region_id \in RequestRegions : get_model(t, region_id)
    \/ \E region_id \in RequestRegions : recalculate_region(t, region_id)
    \/ load_cached_model(t)
    \/ Pipeline(t, {TownsLayer}, {{}}, SomeMatrices)

SpecOrder == Init /\ [][NextOrder]_vars

\* PUT /model_calculator/recalculate/all received twice: each request starts its
\* own load_and_cache_all_models task and answers at once
NextBatch ==
  \E t \in {1, 2} :
    \/ start_load_and_cache_all_models(t)
    \/ load_and_cache_all_models(t, CacheListings)
    \/ Pipeline(t, {TownsLayer}, {{}}, SomeMatrices)

SpecBatch == Init /\ [][NextBatch]_vars

\* one fan-out of sub-fetches and the answers to its requests
NextFanOut ==
  \/ \E territories_ids \in IdLists : get_territories_population(territories_ids)
  \/ \E territories_ids \in IdLists :
       get_subterritories_ids_for_ter_ids(territories_ids)
  \/ check_on_federal_city
  \/ fan_answered
  \/ fan_raised

SpecFanOut == InitWith({}) /\ [][NextFanOut]_vars

\* two operations on one region in succession: a get_model, a forced recompute or
\* a scenario calculation, and once it has ended a get_model or a forced recompute
NextThen ==
  \/ get_model(1, 1)
  \/ recalculate_region(1, 1)
  \/ \E regional_scenario_id \in Scenarios :
       calculate_regional_scenario_model(1, 1, regional_scenario_id)
  \/ (op[1] # "idle" /\ pc[1] \in {"done", "failed"}) /\ get_model(2, reg[1])
  \/ (op[1] # "idle" /\ pc[1] \in {"done", "failed"})
       /\ recalculate_region(2, reg[1])
  \/ \E t \in {1, 2} : load_cached_model(t)
  \/ \E t \in {1, 2} : Pipeline(t, {TownsLayer}, {{}}, SomeMatrices)
  \/ \E t \in {1, 2} : ScenarioTail(t)

SpecThen == Init /\ [][NextThen]_vars

\* one get_href request for region 1, and one forced recompute of the region at
\* any moment before, while or after it is served
NextHref ==
  \/ get_href(1, 1)
  \/ check_agglomerations(1)
  \/ check_cities(1)
  \/ get_agglomerations(1)
  \/ get_cities(1)
  \/ recalculate_region(2, 1)
  \/ \E t \in {1, 2} : Pipeline(t, {TownsLayer}, {{}}, SomeMatrices)

\* the event loop runs a task that can run, and every awaited call ends
SpecHref == Init /\ [][NextHref]_vars /\ WF_vars(NextHref)

(* ------------------------------- claims ------------------------------- *)

\* every step of a calculate_model call that returns
CalculateSteps ==
  {"get_base_regional_scenario", "get_region_borders", "get_tf_cities",
   "get_population", "get_matrix_for_region", "create_model",
   "cache_model_to_pickle", "to_pickle", "upload_scenario_indicators",
   "delete_geoserver_cached_layers", "save_agglomerations", "save_cities"}

\* C1: get_model dispatches on the existence of the cache entry. On a hit the
\* call starts no step of calculate_model (no fetch, no build, no cache write, no
\* publication) and goes straight to the read; on a miss it reaches the read, and
\* hands out a handle, only after calculate_model ran through all its steps and
\* returned.
C1_GetModelDispatch ==
  \A t \in Tasks :
    op[t] = "get_model" =>
      /\ chk[t] \in {"hit", "miss"}
      /\ chk[t] = "hit" =>
           /\ pc[t] \in {"load_cached_model", "done", "failed"}
           /\ did[t] = {} /\ called[t] = <<>> /\ ret[t] = <<>>
      /\ (chk[t] = "miss" /\ pc[t] \in {"load_cached_model", "done"}) =>
           /\ did[t] = CalculateSteps
           /\ called[t] = <<reg[t]>> /\ ret[t] = <<TRUE>>
      /\ handle[t] # NoModel => pc[t] = "done"

C1_Witness ==
  \E t, u \in Tasks :
    /\ op[t] = "get_model" /\ chk[t] = "miss" /\ pc[t] = "done"
    /\ op[u] = "get_model" /\ chk[u] = "hit" /\ pc[u] = "done"
    /\ handle[u] = handle[t] /\ handle[t] = NewModel(t)

\* C2: once a calculate_model(r) call has returned normally, check_path(r) is true
\* and get_available_models lists r.
C2_CalculatedIsCached ==
  \A t \in Tasks :
    (op[t] \in {"get_model", "recalculate_region"} /\ ret[t] = <<TRUE>>) =>
      /\ check_path(reg[t])
      /\ get_available_models.ok
      /\ reg[t] \in get_available_models.regions

C2_Witness ==
  \E t \in Tasks :
    /\ op[t] = "recalculate_region" /\ pc[t] = "done" /\ ret[t] = <<TRUE>>
    /\ get_available_models.regions = {1, 2}

LayerTypes == {"agglomerations", "cities"}

\* C3: a calculate_model(r) call that get_model made for an uncached r and that
\* failed in a fetch, in the alignment, in the build or in the cache write leaves r
\* uncached (no other task has run).
C3_FailedCallStaysUncached ==
  \A t \in Tasks :
    ( /\ op[t] = "get_model" /\ chk[t] = "miss"
      /\ pc[t] = "failed" /\ ret[t] = <<FALSE>>
      /\ "to_pickle" \notin did[t]
      /\ \A u \in Tasks \ {t} : op[u] = "idle" )
    => ~check_path(reg[t])

\* C4: a read of load_cached_model that happens while cache_model_to_pickle is
\* writing the same file yields a complete model.
C4_ReadSeesCompleteModel ==
  [][\A t \in Tasks :
       ( /\ pc[t] = "load_cached_model" /\ pc'[t] # "load_cached_model"
         /\ \E u \in Tasks : pc[u] = "to_pickle" /\ reg[u] = reg[t] )
       => pc'[t] = "done" /\ handle'[t] # NoModel]_vars

\* C5: once a calculate_model(r) call has returned and no other call for r is in
\* progress, the layer store holds at most one agglomerations layer and one cities
\* layer for r, both of one generation.
C5_OneGenerationOfLayers ==
  \A t \in Tasks :
    ( /\ op[t] \in {"get_model", "recalculate_region"} /\ ret[t] = <<TRUE>>
      /\ \A u \in Tasks : reg[u] = reg[t] => pc[u] \in {"done", "failed"} )
    =>
      LET mine == {l \in layers : l.region = reg[t]}
      IN /\ \A ty \in LayerTypes :
              Cardinality({l \in mine : l.layer_type = ty}) <= 1
         /\ Cardinality({l.model : l \in mine}) <= 1

\* C6: whenever create_model is called, the index of the towns passed is, label by
\* label and in the same order, the row index and the column index of the matrix
\* passed, also when the towns were indexed by territory_id for the population join
\* and given their original index back.
C6_TownsAlignedWithMatrix ==
  \A t \in Tasks :
    "create_model" \in did[t] =>
      /\ loc[t].adj.rows = loc[t].towns
      /\ loc[t].adj.cols = loc[t].towns
      /\ Range(loc[t].towns) \subseteq Range(loc[t].matrix)

C6_Witness ==
  \E t \in Tasks :
    /\ op[t] = "calculate_regional_scenario_model"
    /\ "create_model" \in did[t]
    /\ Len(loc[t].towns) >= 2
    /\ loc[t].towns # Index(loc[t].cities)
    /\ loc[t].towns # loc[t].matrix

\* C7: when the matrix fetched lacks a label of the final towns, calculate_model
\* has raised: create_model was not called, no model exists, nothing was written
\* to the cache.
C7_MissingTownFails ==
  \A t \in Tasks :
    (loc[t].fetched /\ ~(Range(loc[t].towns) \subseteq Range(loc[t].matrix))) =>
      /\ pc[t] = "failed" /\ ret[t] = <<FALSE>>
      /\ did[t] \cap {"create_model", "cache_model_to_pickle", "to_pickle"} = {}
      /\ loc[t].model = NoModel
      /\ loc[t].adj = NoLocals.adj
      /\ ~check_path(reg[t])

C7_Witness ==
  \E t \in Tasks :
    /\ op[t] = "recalculate_region"
    /\ loc[t].fetched /\ pc[t] = "failed"
    /\ loc[t].matrix # <<>>
    /\ \E i \in 1..Len(loc[t].towns) : loc[t].towns[i] \notin Range(loc[t].matrix)
    /\ \E i \in 1..Len(loc[t].towns) : loc[t].towns[i] \in Range(loc[t].matrix)

\* the regions whose entry is the one an earlier run left
StillOld == {r \in Regions : check_path(r) /\ cache[PklName(r)] = Pickle(OldModel(r))}

\* C8: the startup warmup invokes calculate_model once for each region listed and
\* not cached, for no other region, and leaves the entries of the cached regions
\* as they were.
C8_WarmupCalculatesTheDifference ==
  \A t \in Tasks :
    (op[t] = "load_and_cache_all_models_on_startup" /\ listed[t].state = "listed") =>
      LET difference == Range(listed[t].all) \ listed[t].cached
      IN /\ IsInjective(called[t])
         /\ Range(called[t]) \subseteq difference
         /\ pc[t] = "done" =>
              Range(called[t]) = difference /\ Len(ret[t]) = Len(called[t])
         /\ listed[t].cached = StillOld

C8_Witness ==
  \E t \in Tasks :
    /\ op[t] = "load_and_cache_all_models_on_startup" /\ pc[t] = "done"
    /\ Range(listed[t].all) = {1, 2, Disallowed}
    /\ listed[t].cached = {2}
    /\ Range(called[t]) = {1, Disallowed} /\ Len(called[t]) = 2
    /\ check_path(1)

\* C9: load_and_cache_all_models invokes calculate_model for every region id that
\* get_regions returned, in that order, whatever calls failed, and ends normally.
C9_BatchVisitsEveryRegion ==
  \A t \in Tasks :
    (op[t] = "load_and_cache_all_models" /\ listed[t].state = "listed") =>
      /\ pc[t] # "failed"
      /\ Len(called[t]) <= Len(listed[t].all)
      /\ called[t] = SubSeq(listed[t].all, 1, Len(called[t]))
      /\ pc[t] = "done" =>
           called[t] = listed[t].all /\ Len(ret[t]) = Len(called[t])

C9_Witness ==
  \E t \in Tasks :
    /\ op[t] = "load_and_cache_all_models" /\ pc[t] = "done"
    /\ Len(called[t]) = 3
    /\ ret[t] = <<FALSE, TRUE, FALSE>>

\* C10: when get_regions or the listing of the cache fails, the startup warmup
\* returns normally at once and has invoked calculate_model for no region.
C10_FailedListingAbandonsWarmup ==
  \A t \in Tasks :
    ( /\ op[t] = "load_and_cache_all_models_on_startup"
      /\ listed[t].state \in {"get_regions failed", "get_available_regions failed"} )
    => /\ pc[t] = "done"
       /\ called[t] = <<>> /\ ret[t] = <<>> /\ did[t] = {}
       /\ \A f \in DOMAIN cache : \E r \in Regions : f = PklName(r) /\ r \in StillOld

C10_Witness ==
  \E t \in Tasks :
    /\ op[t] = "load_and_cache_all_models_on_startup" /\ pc[t] = "done"
    /\ listed[t].state = "get_available_regions failed"
    /\ cache # <<>>

\* C11: no step of any operation removes a cache entry: a region that has an entry
\* before the step has one after it, and no file leaves the cache directory.
C11_EntryNeverDeleted ==
  [][ /\ DOMAIN cache \subseteq DOMAIN cache'
      /\ \A r \in Regions : check_path(r) => check_path(r)' ]_vars

\* an entry a finished calculation wrote is being overwritten by a second one, and
\* the entry of another region is still the one an earlier run left
C11_Witness ==
  \E t, u \in Tasks :
    /\ t # u /\ reg[t] = reg[u]
    /\ "to_pickle" \in did[t] /\ op[t] = "get_model" /\ pc[t] = "done"
    /\ pc[u] = "to_pickle" /\ cache[PklName(reg[u])] = <<>>
    /\ StillOld # {}

C13_ProjectHandlerNeverRaises ==
  \A t \in Tasks : event[t].kind = "ProjectCreated" => at[t] # "raised"

\* C14: when the scenario lookup of a computation is answered 404, that
\* computation sends nothing to the indicator-upload endpoint, and the handler
\* goes on to its end without raising.
C14_NoUploadAfter404 ==
  \A t \in Tasks :
    event[t].kind = "ProjectCreated" =>
      /\ seen[t].population = 404 =>
           /\ ~\E p \in posted : p.task = t /\ p.by = "population"
           /\ at[t] \in {"process_evaluation", "returned"}
      /\ seen[t].evaluation = 404 =>
           /\ ~\E p \in posted : p.task = t /\ p.by = "evaluation"
           /\ at[t] = "returned"

C14_Witness ==
  \E t \in Tasks :
    /\ event[t].kind = "ProjectCreated" /\ at[t] = "returned"
    /\ seen[t] = [population |-> 404, evaluation |-> 404]
    /\ posted = {}

\* C15: RegionScenarioHandler.handle never ends by raising.
C15_ScenarioHandlerNeverRaises ==
  \A t \in Tasks : event[t].kind = "RegionalScenarioCreated" => at[t] # "raised"

\* C19: a scenario calculation started for the event (r, s) works on r, gives s
\* to the population request, to the upload of the agglomeration-status
\* indicators and to the upload of the hexagon scores, and uploads the hexagon
\* scores after the indicators; it never asks for the base scenario of r.
C19_ScenarioUsedThroughout ==
  \A t \in Tasks :
    ( /\ event[t].kind = "RegionalScenarioCreated"
      /\ op[t] = "calculate_regional_scenario_model" )
    => /\ reg[t] = event[t].territory_id
       /\ pc[t] \in ScenarioCalls => ScenarioArg(t) = event[t].scenario_id
       /\ "get_base_regional_scenario" \notin did[t]
       /\ pc[t] = "upload_hexagons_indicators" =>
            {"get_population", "to_pickle", "upload_scenario_indicators",
             "get_hexagons"} \subseteq did[t]
       /\ pc[t] = "done" =>
            {"upload_scenario_indicators", "upload_hexagons_indicators"}
              \subseteq did[t]

C19_Witness ==
  \E t \in Tasks :
    /\ event[t].kind = "RegionalScenarioCreated" /\ event[t].scenario_id = 8
    /\ at[t] = "returned" /\ pc[t] = "done"
    /\ ScenarioArg(t) = 8 /\ "upload_hexagons_indicators" \in did[t]

\* C16: every RegionalScenarioCreated event the bus has for the service after
\* register_and_start is handed to a handler, which is called with that event.
C16_ScenarioEventsInvoke ==
  \A i \in 1..Len(bus) :
    (bus[i].event.kind = "RegionalScenarioCreated" /\ bus[i].status # "published")
    => /\ bus[i].status = "handled"
       /\ \E k \in 1..Len(invoked) : invoked[k] = bus[i].event

\* C17: every request an APIHandler call puts on the wire after a 'reset by
\* peer' answer is the request it sent first: same method, url, headers, query
\* parameters and body.
C17_RetrySendsSameRequest ==
  \A i \in 1..Len(wire) : wire[i] = wire[1]

\* C18: a calculate_model call for the disallowed region sends no upstream
\* request (it is never waiting for one and has completed none), writes no cache
\* file, publishes no layer and is made once.
C18_DisallowedRejectedAtOnce ==
  \A t \in Tasks :
    (op[t] \in {"get_model", "recalculate_region"} /\ reg[t] = Disallowed)
    => /\ pc[t] = "failed"
       /\ did[t] = {}
       /\ Len(called[t]) <= 1
       /\ ~check_path(Disallowed)
       /\ \A l \in layers : l.region # Disallowed

\* the steps of calculate_model in the order of the code
CalculateOrder ==
  <<"get_base_regional_scenario", "get_region_borders", "get_tf_cities",
    "get_population", "get_matrix_for_region", "create_model",
    "cache_model_to_pickle", "to_pickle", "upload_scenario_indicators",
    "delete_geoserver_cached_layers", "save_agglomerations", "save_cities">>

\* C20: in every calculate_model call a step has started only if every step
\* before it in the order of the code has; a file is written only after the
\* fetches and the build, a layer is published only after the cache write, the
\* indicator upload and the deletion of the old layers, the cities layer only
\* after the agglomerations layer; and a call that failed takes no further step.
C20_StepsInOrder ==
  /\ [](\A t \in Tasks :
         op[t] \in {"get_model", "recalculate_region"} =>
           /\ \A i, j \in 1..Len(CalculateOrder) :
                (i < j /\ CalculateOrder[j] \in did[t]) => CalculateOrder[i] \in did[t]
           /\ (\E f \in DOMAIN cache : \E k \in 1..Len(cache[f]) : cache[f][k].task = t)
                => {"get_region_borders", "get_tf_cities", "get_population",
                    "get_matrix_for_region", "create_model"} \subseteq did[t]
           /\ (\E l \in layers : l.model.task = t)
                => {"to_pickle", "upload_scenario_indicators",
                    "delete_geoserver_cached_layers"} \subseteq did[t]
           /\ (\E l \in layers : l.model.task = t /\ l.layer_type = "cities")
                => "save_agglomerations" \in did[t])
  /\ [][\A t \in Tasks :
          (op[t] \in {"get_model", "recalculate_region"} /\ pc[t] = "failed")
          => (pc'[t] = "failed" /\ did'[t] = did[t])]_vars

C20_Witness ==
  \E t, u \in Tasks :
    /\ op[t] = "recalculate_region" /\ pc[t] = "done"
    /\ did[t] = Range(CalculateOrder)
    /\ op[u] = "get_model" /\ pc[u] = "failed"
    /\ did[u] = Range(SubSeq(CalculateOrder, 1, 9))

\* C21: two get_model calls for the same uncached region may both miss and both
\* run the pipeline; a cache file never holds chunks of two models, and the write
\* that completes leaves the whole model of the task that wrote it
C21_LastWriterWins ==
  /\ [](\A f \in DOMAIN cache :
         \A i, j \in 1..Len(cache[f]) : cache[f][i] = cache[f][j])
  /\ [][\A t \in Tasks :
          (pc[t] = "to_pickle" /\ "to_pickle" \in did'[t])
            => cache'[PklName(reg[t])] = Pickle(loc[t].model)]_vars

\* both callers missed on the same region, both wrote, and the entry is the
\* whole model of one of them
C21_Witness ==
  /\ \A t \in {1, 2} : op[t] = "get_model" /\ chk[t] = "miss"
                        /\ "to_pickle" \in did[t]
  /\ reg[1] = reg[2]
  /\ cache[PklName(reg[1])] = Pickle(loc[2].model)
  /\ loc[1].model # loc[2].model

\* the tasks of batch runs that are inside a calculate_model call
InBatchPipeline ==
  {t \in Tasks : op[t] = "load_and_cache_all_models"
                   /\ pc[t] \notin {"idle", "get_regions", "done", "failed"}}

\* C22 as stated: at no time are two calculate_model pipelines started by
\* load_and_cache_all_models in progress, however the batch was launched
C22_OneBatchPipelineAtATime == Cardinality(InBatchPipeline) <= 1

\* C22 amended: one run of load_and_cache_all_models has at most one
\* calculate_model call that has not ended, and it is inside that call exactly
\* when there is one
C22_OneRunOneRegionAtATime ==
  \A t \in Tasks :
    op[t] = "load_and_cache_all_models" =>
      /\ Len(called[t]) \in {Len(ret[t]), Len(ret[t]) + 1}
      /\ (t \in InBatchPipeline <=> Len(called[t]) = Len(ret[t]) + 1)

\* a run is inside the call for its second region, the first call has ended, and
\* a second run is inside a call of its own
C22_Witness ==
  /\ Len(called[1]) = 2 /\ Len(ret[1]) = 1
  /\ InBatchPipeline = {1, 2}

\* C24: an answer whose status is not 200/201 and that is not the reset-by-peer
\* 500 makes the call raise an error that carries the status of the answer, and
\* puts no further request on the wire
C24_ErrorCarriesUpstreamStatus ==
  [][(/\ result.state = "pending"
      /\ result' # result
      /\ result'.last.status \notin {200, 201}
      /\ ~IsResetByPeer(result'.last))
       => /\ result'.state = "raised"
          /\ result'.status_code = result'.last.status
          /\ wire' = wire]_vars

\* C29: the only answer after which an APIHandler call is still waiting, with one
\* more request on the wire, is the reset-by-peer 500: any other answer ends the
\* call
C29_OtherAnswersEndTheCall ==
  [][(result.state = "pending" /\ result'.state = "pending")
       => IsResetByPeer(result'.last)]_vars

\* C23: a fan-out of sub-fetches never has more than 40 requests in flight, and
\* what it returns are the answers in the order of the ids it was asked for
C23_FanOutWithinWindow ==
  /\ fan.in_flight <= Window
  /\ fan.state = "returned"
       => fan.results = Gathered(fan.site, fan.ids, 1, Len(fan.ids))

\* C25: the scenario model is cached under the key of the region: once
\* calculate_regional_scenario_model(r, s) has succeeded the entry of r is the
\* model built for s, a get_model(r) that follows hits and returns that model
\* without calculating, and a calculate_model(r) that follows overwrites the
\* entry with the model of the base scenario
C25_ScenarioModelUnderRegionKey ==
  (op[1] = "calculate_regional_scenario_model" /\ pc[1] = "done") =>
    /\ loc[1].model.scenario \in Scenarios
    /\ op[2] = "idle" => /\ check_path(reg[1])
                         /\ cache[PklName(reg[1])] = Pickle(loc[1].model)
    /\ op[2] = "get_model" =>
         /\ chk[2] = "hit" /\ did[2] = {} /\ pc[2] # "failed"
         /\ pc[2] = "done" => handle[2] = loc[1].model
    /\ (op[2] = "recalculate_region" /\ "to_pickle" \in did[2]) =>
         /\ cache[PklName(reg[1])] = Pickle(loc[2].model)
         /\ loc[2].model.scenario = BaseScenario(reg[1])

\* get_model has returned the model of scenario 7 for the region
C25_Witness ==
  /\ op[1] = "calculate_regional_scenario_model" /\ pc[1] = "done"
  /\ op[2] = "get_model" /\ pc[2] = "done"
  /\ handle[2] = [task |-> 1, region |-> 1, scenario |-> 7]

\* C26: when calculate_model(r) has failed after its cache write, the entry it
\* wrote is there, and a get_model(r) that follows hits, calculates nothing and
\* returns that model
C26_EntryStaysAfterLateFailure ==
  (/\ op[1] \in {"get_model", "recalculate_region"}
   /\ pc[1] = "failed" /\ "to_pickle" \in did[1]) =>
    /\ op[2] = "idle" => /\ check_path(reg[1])
                         /\ cache[PklName(reg[1])] = Pickle(loc[1].model)
    /\ op[2] = "get_model" =>
         /\ chk[2] = "hit" /\ did[2] = {} /\ called[2] = <<>>
         /\ pc[2] # "failed"
         /\ pc[2] = "done" => handle[2] = loc[1].model

\* the upload of the cities layer failed, and the get_model that followed
\* returned the model whose cities layer was never published
C26_Witness ==
  /\ op[1] = "recalculate_region" /\ pc[1] = "failed"
  /\ "save_cities" \in did[1]
  /\ op[2] = "get_model" /\ pc[2] = "done" /\ handle[2] = loc[1].model
  /\ ~\E l \in layers : l.layer_type = "cities" /\ l.model = handle[2]

\* C27: no step of a forced recompute that has not reached its cache write, its
\* failure included, changes a cache entry or a layer
C27_EarlyFailureChangesNothing ==
  [][(/\ op'[2] = "recalculate_region"
      /\ "cache_model_to_pickle" \notin did[2]
      /\ pc'[2] # "to_pickle")
       => (cache' = cache /\ layers' = layers)]_vars

\* the region was cached and had both layers, and the forced recompute failed
\* in its build
C27_Witness ==
  /\ op[2] = "recalculate_region" /\ pc[2] = "failed"
  /\ "create_model" \in did[2] /\ "cache_model_to_pickle" \notin did[2]
  /\ check_path(reg[2])
  /\ cache[PklName(reg[2])] = Pickle(loc[1].model)
  /\ \A layer_type \in LayerTypes :
       \E l \in layers : /\ l.region = reg[2] /\ l.layer_type = layer_type
                          /\ l.model = loc[1].model

\* C28: the cache never holds an entry for the disallowed region 143111
C28_NoEntryForDisallowed == ~check_path(Disallowed)

\* C30 as stated: a get_href request triggers at most one calculate_model
C30_AtMostOneCalculate ==
  \A t \in Tasks : op[t] = "get_href" => Len(called[t]) <= 1

\* C30 amended: a get_href request ends; it makes one calculate_model call more
\* than once only when a recompute by another request came in between, at most
\* one call for each such recompute; and when it returns, it returns the
\* agglomerations layer and the cities layer of the region, in this order
C30_HrefTerminates ==
  /\ [](op[1] = "get_href" =>
         /\ Len(called[1]) <= 1 + Len(called[2])
         /\ pc[1] = "done" =>
              href[1].layers = <<[region |-> reg[1], layer_type |-> "agglomerations"],
                                 [region |-> reg[1], layer_type |-> "cities"]>>)
  /\ (op[1] = "get_href" ~> pc[1] \in {"done", "failed"})

\* with no other request, a layer was missing, the region was recomputed once,
\* both checks of the recursive call were true and the two layers were returned
C30_Witness ==
  /\ op[1] = "get_href" /\ pc[1] = "done" /\ op[2] = "idle"
  /\ Len(called[1]) = 1 /\ ret[1] = <<TRUE>>
  /\ href[1].agglomeration_check /\ href[1].cities_check
  /\ Len(href[1].layers) = 2

====
